---- MODULE Spec2Model ----
(***************************************************************************)
(* TerritoryMap (src/map.js): the dispensary map's load sequence, its      *)
(* filter handlers, the tiered coordinate resolution of updateMap, the     *)
(* seeded jitter and the popup's sparkline.                                *)
(*                                                                         *)
(* Spec is the page from construction on. SparklineSpec applies            *)
(* createMiniSparkline to the arrays a record's monthly_data may hold, and *)
(* JitterSpec applies seededRandom and getStableJitter to seed strings.    *)
(*                                                                         *)
(* Representation.                                                         *)
(*  - A JavaScript string is the sequence of its UTF-16 code units         *)
(*    ("Jal" is <<74, 97, 108>>); an absent string property is Undefined.  *)
(*  - A JavaScript value that may be a number is a record                  *)
(*    [t, u, fh, fl, s]: t is "undef", "null", "nan", "num" or "str";      *)
(*    a "num" is u + (fh * 2^16 + fl) / 2^32 exactly (fh, fl are 16-bit    *)
(*    limbs of the fraction); a "str" carries its code units in s.         *)
(*    Latitudes and longitudes count units of 0.0001 degree, the           *)
(*    precision of the centroid table; a postal code counts units.         *)
(*    Arithmetic is exact: the rounding of IEEE doubles (below 1e-12       *)
(*    degree here) is not modelled.                                        *)
(*  - 32-bit integers are kept as two 16-bit limbs [hi, lo], because the   *)
(*    values of seededRandom do not fit TLC's 32-bit signed integers.      *)
(***************************************************************************)
EXTENDS Integers, Sequences, FiniteSets, TLC

VARIABLES
    pc,            \* position of init(): "fetchData", "fetchCache", "afterLoad", "idle"
    dataFetch,     \* outcome of fetch('dispensary_data.json')
    geoFetch,      \* outcome of fetch('geocoded_cache.json')
    data,          \* this.data
    filteredData,  \* this.filteredData
    map,           \* this.map exists (initMap has run)
    markers,       \* this.markers
    strayLayers,   \* markers added to this.map that never reached this.markers
    geoCache,      \* this.geoCache
    geoCacheNorm,  \* this.geoCacheNorm
    listeners,     \* setupEventListeners has run
    regionOptions, \* <option> values of #region-filter besides ""
    cityOptions,   \* <option> values of #city-filter besides ""
    search,        \* #search value
    region,        \* #region-filter value
    city,          \* #city-filter value
    trend,         \* data-trend of the .trend-filter.active button
    results,       \* content of #map-results-count
    lastRun,       \* what the last updateMap call did
    placed,        \* every (record, coordinate) a marker was ever created with
    applied,       \* the control values the last applyFilters call filtered by
    chart,         \* a popup's <canvas> and the createMiniSparkline call on it
    rand           \* a getStableJitter call: its arguments and what it returned

vars == <<pc, dataFetch, geoFetch, data, filteredData, map, markers, strayLayers,
          geoCache, geoCacheNorm, listeners, regionOptions, cityOptions,
          search, region, city, trend, results, lastRun, placed, applied, chart, rand>>

----------------------------------------------------------------------------
(* Bounds of the model *)

MaxData == 2      \* records in a locations.data array
MaxLegacy == 1    \* records in a legacy dispensaries array
MaxCache == 2     \* entries of geocoded_cache.json

----------------------------------------------------------------------------
(* const x = ...; F(x): the value x is computed once and F is applied to it *)

Const(x, F(_)) == CHOOSE v \in {F(y) : y \in {x}} : TRUE

----------------------------------------------------------------------------
(* Strings *)

Undefined == <<-1>>

WhiteSpace == {9, 10, 11, 12, 13, 32, 160}

ToLowerCase(s) == [i \in 1..Len(s) |-> IF s[i] \in 65..90 THEN s[i] + 32 ELSE s[i]]

RECURSIVE TrimStart(_)
TrimStart(s) ==
    IF s # <<>> /\ Head(s) \in WhiteSpace THEN TrimStart(Tail(s)) ELSE s

RECURSIVE TrimEnd(_)
TrimEnd(s) ==
    IF s # <<>> /\ s[Len(s)] \in WhiteSpace
    THEN TrimEnd(SubSeq(s, 1, Len(s) - 1)) ELSE s

Trim(s) == TrimEnd(TrimStart(s))

Includes(s, sub) ==
    \E i \in 0..(Len(s) - Len(sub)) : SubSeq(s, i + 1, i + Len(sub)) = sub

\* s.replace(/[.,]/g, '')
StripPunct(s) == SelectSeq(s, LAMBDA c : c \notin {46, 44})

\* s.replace(/\s+/g, ' ')
RECURSIVE CollapseSpace(_)
CollapseSpace(s) ==
    IF s = <<>> THEN <<>>
    ELSE IF Head(s) \in WhiteSpace
         THEN <<32>> \o CollapseSpace(TrimStart(s))
         ELSE <<Head(s)>> \o CollapseSpace(Tail(s))

\* s || '' for a string property that may be absent
OrEmpty(s) == IF s = Undefined \/ s = <<>> THEN <<>> ELSE s

Norm(s) == Trim(CollapseSpace(StripPunct(ToLowerCase(OrEmpty(s)))))

\* String(n) of a non-negative integer
RECURSIVE DigitsOf(_)
DigitsOf(n) ==
    IF n < 10 THEN <<48 + n>> ELSE DigitsOf(n \div 10) \o <<48 + (n % 10)>>

IsDigit(c) == c \in 48..57

RECURSIVE DigitRun(_)
DigitRun(s) ==
    IF s # <<>> /\ IsDigit(Head(s)) THEN <<Head(s)>> \o DigitRun(Tail(s)) ELSE <<>>

RECURSIVE DigitsValue(_)
DigitsValue(ds) ==
    IF ds = <<>> THEN 0 ELSE 10 * DigitsValue(SubSeq(ds, 1, Len(ds) - 1)) + (ds[Len(ds)] - 48)

----------------------------------------------------------------------------
(* JavaScript values *)

JsUndef == [t |-> "undef", u |-> 0, fh |-> 0, fl |-> 0, s |-> <<>>]
JsNull == [t |-> "null", u |-> 0, fh |-> 0, fl |-> 0, s |-> <<>>]
NaN == [t |-> "nan", u |-> 0, fh |-> 0, fl |-> 0, s |-> <<>>]
Num(u) == [t |-> "num", u |-> u, fh |-> 0, fl |-> 0, s |-> <<>>]
Str(s) == [t |-> "str", u |-> 0, fh |-> 0, fl |-> 0, s |-> s]

\* v == null
IsNullish(v) == v.t \in {"undef", "null"}

\* The decimal fraction digits fs as units of 0.0001 (inputs carry at most four)
FractionUnits(fs) ==
    LET d(i) == IF i <= Len(fs) THEN fs[i] - 48 ELSE 0
    IN  1000 * d(1) + 100 * d(2) + 10 * d(3) + d(4)

\* parseFloat of the text s: leading white space, a sign, digits, a fraction;
\* whatever follows is ignored; no digit at all is NaN
ParseFloatText(s) ==
    LET t0 == TrimStart(s)
        neg == t0 # <<>> /\ Head(t0) = 45
        t1 == IF t0 # <<>> /\ Head(t0) \in {43, 45} THEN Tail(t0) ELSE t0
        ip == DigitRun(t1)
        t2 == SubSeq(t1, Len(ip) + 1, Len(t1))
        fp == IF t2 # <<>> /\ Head(t2) = 46 THEN DigitRun(Tail(t2)) ELSE <<>>
        mag == 10000 * DigitsValue(ip) + FractionUnits(fp)
    IN  IF ip = <<>> /\ fp = <<>> THEN NaN
        ELSE Num(IF neg THEN -mag ELSE mag)

\* parseFloat(v), v a latitude or a longitude
ParseFloat(v) ==
    CASE v.t = "num" -> v
      [] v.t = "str" -> ParseFloatText(v.s)
      [] OTHER -> NaN

\* Number(v), v a postal code
ToNumber(v) ==
    CASE v.t = "num" -> v
      [] v.t = "null" -> Num(0)
      [] v.t = "str" ->
            LET t0 == Trim(v.s)
            IN  IF t0 = <<>> THEN Num(0)
                ELSE IF DigitRun(t0) = t0 THEN Num(DigitsValue(t0))
                ELSE NaN
      [] OTHER -> NaN

\* the global isFinite(v): Number(v) is a finite number
IsFinite(v) == ToNumber(v).t = "num"

\* String(zip)
ToStringZip(v) ==
    CASE v.t = "num" -> DigitsOf(v.u)
      [] v.t = "str" -> v.s
      [] OTHER -> <<78, 97, 78>>

\* Number(zip).toFixed(1)
ToFixed1(v) ==
    LET n == ToNumber(v)
    IN  IF n.t = "num" THEN DigitsOf(n.u) \o <<46, 48>> ELSE <<78, 97, 78>>

----------------------------------------------------------------------------
(* 32-bit arithmetic of seededRandom, on 16-bit limbs *)

Limb == 65536

RECURSIVE Xor(_, _)
Xor(a, b) ==
    IF a = 0 THEN b
    ELSE IF b = 0 THEN a
    ELSE ((a + b) % 2) + 2 * Xor(a \div 2, b \div 2)

\* The signed 32-bit integer with unsigned limbs hiU, lo
Int32(hiU, lo) == [hi |-> IF hiU >= 32768 THEN hiU - Limb ELSE hiU, lo |-> lo]

\* ToInt32 of a number kept as [hi, lo]: its value modulo 2^32, read as signed
ToInt32(h) == Int32(h.hi % Limb, h.lo)

\* h ^ c for a code unit c
XorCode(h, c) ==
    LET x == ToInt32(h) IN [hi |-> x.hi, lo |-> Xor(x.lo, c)]

Pow2(k) == CASE k = 1 -> 2 [] k = 4 -> 16 [] k = 7 -> 128 [] k = 8 -> 256

\* x << k for an int32 x: the low 32 bits of the shifted value, read as signed
Shl(x, k) ==
    IF k = 24 THEN Int32((x.lo * 256) % Limb, 0)
    ELSE LET t == x.lo * Pow2(k)
         IN  Int32((((x.hi % Limb) * Pow2(k)) + (t \div Limb)) % Limb, t % Limb)

\* A number that is a whole multiple of 1, kept as [hi, lo] = hi * 2^16 + lo
Whole == [hi : Int, lo : 0..(Limb - 1)]

\* h + (h << 1) + (h << 4) + (h << 7) + (h << 8) + (h << 24) for an int32 h: a
\* sum of numbers, not reduced to 32 bits
MixSum[h \in Whole] ==
    LET lo == h.lo + Shl(h, 1).lo + Shl(h, 4).lo + Shl(h, 7).lo + Shl(h, 8).lo + Shl(h, 24).lo
        hi == h.hi + Shl(h, 1).hi + Shl(h, 4).hi + Shl(h, 7).hi + Shl(h, 8).hi + Shl(h, 24).hi
    IN  [hi |-> hi + (lo \div Limb), lo |-> lo % Limb]

\* for (i = 0; i < str.length; i++) { h ^= str.charCodeAt(i); h += ... }
HashLoop[h \in Whole, str \in Seq(Int)] ==
    IF str = <<>> THEN h
    ELSE HashLoop[MixSum[XorCode(h, Head(str))], Tail(str)]

\* 2166136261 >>> 0
HashInit == [hi |-> 33052, lo |-> 40389]

\* h, not brought back to an unsigned 32-bit integer
NotShifted(h) == h

\* h >>> 0
ToUint32(h) == [hi |-> h.hi % Limb, lo |-> h.lo]

\* seededRandom(seed): (h >>> 0) / 4294967296, a number in [0, 1)
SeededRandom(seed) ==
    LET h == ToUint32(HashLoop[HashInit, seed])
    IN  [t |-> "num", u |-> 0, fh |-> h.hi, fl |-> h.lo, s |-> <<>>]

\* (r - 0.5) * scale, for scale a whole number of units
Centered(r, scale) ==
    LET lo == r.fl * scale
        hi == (r.fh - 32768) * scale + (lo \div Limb)
    IN  [t |-> "num", u |-> hi \div Limb, fh |-> hi % Limb, fl |-> lo % Limb, s |-> <<>>]

\* r * scale: a jitter that is not centred on zero
Uncentered(r, scale) ==
    [t |-> "num", u |-> ((r.fh * scale) + ((r.fl * scale) \div Limb)) \div Limb,
     fh |-> ((r.fh * scale) + ((r.fl * scale) \div Limb)) % Limb,
     fl |-> (r.fl * scale) % Limb, s |-> <<>>]

UncenteredJitter(seed, scale) ==
    <<Uncentered(SeededRandom(seed \o <<58, 108, 97, 116>>), scale),
      Uncentered(SeededRandom(seed \o <<58, 108, 110, 103>>), scale)>>

\* getStableJitter(seed, scale)
GetStableJitter(seed, scale) ==
    LET r1 == SeededRandom(seed \o <<58, 108, 97, 116>>)
        r2 == SeededRandom(seed \o <<58, 108, 110, 103>>)
    IN  <<Centered(r1, scale), Centered(r2, scale)>>

\* a + b for a whole number a and a number b
Plus(a, b) == [b EXCEPT !.u = a + b.u]

----------------------------------------------------------------------------
(* Records, the centroid table, the geocode cache *)

\* A LocationRecord of the dataset. growth_rate, latest_sales and
\* avg_monthly_sales are numbers in every record and are left out.
Rec(licensee, address, cty, reg, latitude, longitude, zip, trend_direction) ==
    [licensee |-> licensee, address |-> address, city |-> cty, region |-> reg,
     latitude |-> latitude, longitude |-> longitude, zip |-> zip,
     trend_direction |-> trend_direction]

UP == <<117, 112>>
DOWN == <<100, 111, 119, 110>>
STABLE == <<115, 116, 97, 98, 108, 101>>
ALL == <<97, 108, 108>>

\* Trend labels of the dataset
StrongUp == <<115, 116, 114, 111, 110, 103, 95, 117, 112>>
StrongDown == <<115, 116, 114, 111, 110, 103, 95, 100, 111, 119, 110>>
InsufficientData == <<105, 110, 115, 117, 102, 102, 105, 99, 105, 101, 110, 116, 95, 100, 97, 116, 97>>

North == <<78>>
South == <<83>>

\* no coordinates, an integer postal code (88252), a city of the table:
\* licensee "A", "1 St.", "Jal", trend "strong_up"
RecCached ==
    Rec(<<65>>, <<49, 32, 83, 116, 46>>, <<74, 97, 108>>, South,
        JsNull, JsNull, Num(88252), StrongUp)

\* explicit coordinates ("36.5" and -103.2) at the same address: licensee "C",
\* trend "down"
RecExplicit ==
    Rec(<<67>>, <<49, 32, 83, 116, 46>>, <<74, 97, 108>>, North,
        Str(<<51, 54, 46, 53>>), Num(-1032000), Num(88252), DOWN)

\* a latitude that does not parse ("abc"), a city that is not in the table:
\* licensee "D", "9 Ln", "Xx", trend "insufficient_data"
RecNowhere ==
    Rec(<<68>>, <<57, 32, 76, 110>>, <<88, 120>>, North,
        Str(<<97, 98, 99>>), Num(-1060000), JsUndef, InsufficientData)

\* only a longitude, a city of the table, no trend label: licensee "E",
\* "2 Rd", "Taos"
RecNoTrend ==
    Rec(<<69>>, <<50, 32, 82, 100>>, <<84, 97, 111, 115>>, South,
        JsNull, Num(-1055000), JsUndef, Undefined)

\* The records a dataset is made of, in the order they take in a file
RecordList == <<RecExplicit, RecCached, RecNoTrend, RecNowhere>>

Records == {RecordList[i] : i \in DOMAIN RecordList}

\* An element of [...source] when source is a string: a one-character string,
\* every property of which is undefined
CharElement ==
    Rec(Undefined, Undefined, Undefined, Undefined, JsUndef, JsUndef, JsUndef, Undefined)

\* getCityCoordinates(): the table, in units of 0.0001 degree
GetCityCoordinates ==
    {
       [name |-> <<65, 108, 98, 117, 113, 117, 101, 114, 113, 117, 101>>, lat |-> 350844, lng |-> -1066504],  \* Albuquerque
       [name |-> <<65, 108, 98, 113, 117, 101, 114, 113, 117, 101>>, lat |-> 350844, lng |-> -1066504],  \* Albquerque
       [name |-> <<83, 97, 110, 116, 97, 32, 70, 101>>, lat |-> 356870, lng |-> -1059378],  \* Santa Fe
       [name |-> <<76, 97, 115, 32, 67, 114, 117, 99, 101, 115>>, lat |-> 323199, lng |-> -1067637],  \* Las Cruces
       [name |-> <<82, 111, 115, 119, 101, 108, 108>>, lat |-> 333943, lng |-> -1045230],  \* Roswell
       [name |-> <<70, 97, 114, 109, 105, 110, 103, 116, 111, 110>>, lat |-> 367281, lng |-> -1082187],  \* Farmington
       [name |-> <<67, 108, 111, 118, 105, 115>>, lat |-> 344048, lng |-> -1032052],  \* Clovis
       [name |-> <<72, 111, 98, 98, 115>>, lat |-> 327426, lng |-> -1031372],  \* Hobbs
       [name |-> <<65, 108, 97, 109, 111, 103, 111, 114, 100, 111>>, lat |-> 328995, lng |-> -1059603],  \* Alamogordo
       [name |-> <<67, 97, 114, 108, 115, 98, 97, 100>>, lat |-> 324207, lng |-> -1042288],  \* Carlsbad
       [name |-> <<71, 97, 108, 108, 117, 112>>, lat |-> 355281, lng |-> -1087426],  \* Gallup
       [name |-> <<76, 97, 115, 32, 86, 101, 103, 97, 115>>, lat |-> 355939, lng |-> -1052230],  \* Las Vegas
       [name |-> <<83, 105, 108, 118, 101, 114, 32, 67, 105, 116, 121>>, lat |-> 327701, lng |-> -1082803],  \* Silver City
       [name |-> <<76, 111, 115, 32, 65, 108, 97, 109, 111, 115>>, lat |-> 358781, lng |-> -1062978],  \* Los Alamos
       [name |-> <<84, 97, 111, 115>>, lat |-> 364073, lng |-> -1055731],  \* Taos
       [name |-> <<69, 115, 112, 97, 110, 111, 108, 97>>, lat |-> 359911, lng |-> -1060803],  \* Espanola
       [name |-> <<82, 105, 111, 32, 82, 97, 110, 99, 104, 111>>, lat |-> 352328, lng |-> -1066630],  \* Rio Rancho
       [name |-> <<68, 101, 109, 105, 110, 103>>, lat |-> 322687, lng |-> -1077586],  \* Deming
       [name |-> <<71, 114, 97, 110, 116, 115>>, lat |-> 351473, lng |-> -1078548],  \* Grants
       [name |-> <<83, 111, 99, 111, 114, 114, 111>>, lat |-> 340582, lng |-> -1068906],  \* Socorro
       [name |-> <<80, 111, 114, 116, 97, 108, 101, 115>>, lat |-> 341862, lng |-> -1033538],  \* Portales
       [name |-> <<84, 117, 99, 117, 109, 99, 97, 114, 105>>, lat |-> 351717, lng |-> -1037250],  \* Tucumcari
       [name |-> <<84, 114, 117, 116, 104, 32, 111, 114, 32, 67, 111, 110, 115, 101, 113, 117, 101, 110, 99, 101, 115>>, lat |-> 331284, lng |-> -1072528],  \* Truth or Consequences
       [name |-> <<82, 117, 105, 100, 111, 115, 111>>, lat |-> 333317, lng |-> -1056731],  \* Ruidoso
       [name |-> <<65, 114, 116, 101, 115, 105, 97>>, lat |-> 328426, lng |-> -1044028],  \* Artesia
       [name |-> <<76, 111, 118, 105, 110, 103, 116, 111, 110>>, lat |-> 329445, lng |-> -1033488],  \* Lovington
       [name |-> <<66, 101, 108, 101, 110>>, lat |-> 346620, lng |-> -1067764],  \* Belen
       [name |-> <<76, 111, 115, 32, 76, 117, 110, 97, 115>>, lat |-> 348064, lng |-> -1067331],  \* Los Lunas
       [name |-> <<66, 101, 114, 110, 97, 108, 105, 108, 108, 111>>, lat |-> 353103, lng |-> -1065517],  \* Bernalillo
       [name |-> <<67, 111, 114, 114, 97, 108, 101, 115>>, lat |-> 352317, lng |-> -1066142],  \* Corrales
       [name |-> <<69, 100, 103, 101, 119, 111, 111, 100>>, lat |-> 350654, lng |-> -1061964],  \* Edgewood
       [name |-> <<67, 104, 97, 112, 97, 114, 114, 97, 108>>, lat |-> 319135, lng |-> -1063839],  \* Chaparral
       [name |-> <<83, 117, 110, 108, 97, 110, 100, 32, 80, 97, 114, 107>>, lat |-> 317951, lng |-> -1065806],  \* Sunland Park
       [name |-> <<65, 110, 116, 104, 111, 110, 121>>, lat |-> 319979, lng |-> -1066011],  \* Anthony
       [name |-> <<77, 101, 115, 105, 108, 108, 97>>, lat |-> 322723, lng |-> -1068006],  \* Mesilla
       [name |-> <<77, 101, 115, 105, 108, 108, 97, 32, 80, 97, 114, 107>>, lat |-> 322840, lng |-> -1067614],  \* Mesilla Park
       [name |-> <<74, 97, 108>>, lat |-> 321126, lng |-> -1031921],  \* Jal
       [name |-> <<69, 117, 110, 105, 99, 101>>, lat |-> 324390, lng |-> -1031549],  \* Eunice
       [name |-> <<67, 108, 97, 121, 116, 111, 110>>, lat |-> 364556, lng |-> -1031893],  \* Clayton
       [name |-> <<82, 97, 116, 111, 110>>, lat |-> 369042, lng |-> -1044394],  \* Raton
       [name |-> <<65, 110, 103, 101, 108, 32, 70, 105, 114, 101>>, lat |-> 364067, lng |-> -1052897],  \* Angel Fire
       [name |-> <<82, 101, 100, 32, 82, 105, 118, 101, 114>>, lat |-> 367053, lng |-> -1054072],  \* Red River
       [name |-> <<81, 117, 101, 115, 116, 97>>, lat |-> 367067, lng |-> -1055942],  \* Questa
       [name |-> <<67, 104, 97, 109, 97>>, lat |-> 369030, lng |-> -1065814],  \* Chama
       [name |-> <<65, 122, 116, 101, 99>>, lat |-> 368381, lng |-> -1080009],  \* Aztec
       [name |-> <<66, 108, 111, 111, 109, 102, 105, 101, 108, 100>>, lat |-> 367072, lng |-> -1079848],  \* Bloomfield
       [name |-> <<75, 105, 114, 116, 108, 97, 110, 100>>, lat |-> 367381, lng |-> -1083148],  \* Kirtland
       [name |-> <<67, 117, 98, 97>>, lat |-> 360311, lng |-> -1070936],  \* Cuba
       [name |-> <<77, 105, 108, 97, 110>>, lat |-> 351750, lng |-> -1078889],  \* Milan
       [name |-> <<87, 104, 105, 116, 101, 32, 82, 111, 99, 107>>, lat |-> 358314, lng |-> -1062083],  \* White Rock
       [name |-> <<65, 108, 99, 97, 108, 100, 101>>, lat |-> 360886, lng |-> -1060536],  \* Alcalde
       [name |-> <<69, 108, 32, 80, 114, 97, 100, 111>>, lat |-> 364406, lng |-> -1055689],  \* El Prado
       [name |-> <<84, 97, 111, 115, 32, 83, 107, 105, 32, 86, 97, 108, 108, 101, 121>>, lat |-> 365928, lng |-> -1054467],  \* Taos Ski Valley
       [name |-> <<80, 105, 99, 117, 114, 105, 115, 32, 80, 117, 101, 98, 108, 111>>, lat |-> 361892, lng |-> -1057578],  \* Picuris Pueblo
       [name |-> <<80, 108, 97, 99, 105, 116, 97, 115>>, lat |-> 353314, lng |-> -1065633],  \* Placitas
       [name |-> <<76, 111, 115, 32, 82, 97, 110, 99, 104, 111, 115>>, lat |-> 351417, lng |-> -1066472],  \* Los Ranchos
       [name |-> <<66, 111, 115, 113, 117, 101, 32, 70, 97, 114, 109, 115>>, lat |-> 348589, lng |-> -1067103],  \* Bosque Farms
       [name |-> <<80, 101, 114, 97, 108, 116, 97>>, lat |-> 348203, lng |-> -1066931],  \* Peralta
       [name |-> <<82, 105, 111, 32, 67, 111, 109, 109, 117, 110, 105, 116, 105, 101, 115>>, lat |-> 346531, lng |-> -1067483],  \* Rio Communities
       [name |-> <<67, 101, 100, 97, 114, 32, 67, 114, 101, 115, 116>>, lat |-> 351364, lng |-> -1063661],  \* Cedar Crest
       [name |-> <<77, 111, 114, 105, 97, 114, 116, 121>>, lat |-> 350047, lng |-> -1060489],  \* Moriarty
       [name |-> <<69, 115, 116, 97, 110, 99, 105, 97>>, lat |-> 347592, lng |-> -1060517],  \* Estancia
       [name |-> <<77, 97, 100, 114, 105, 100>>, lat |-> 352644, lng |-> -1061500],  \* Madrid
       [name |-> <<80, 101, 110, 97, 32, 66, 108, 97, 110, 99, 97>>, lat |-> 355653, lng |-> -1063361],  \* Pena Blanca
       [name |-> <<83, 97, 110, 32, 89, 115, 105, 100, 114, 111>>, lat |-> 355214, lng |-> -1067789],  \* San Ysidro
       [name |-> <<74, 101, 109, 101, 122, 32, 83, 112, 114, 105, 110, 103, 115>>, lat |-> 357739, lng |-> -1066917],  \* Jemez Springs
       [name |-> <<83, 97, 110, 116, 97, 32, 82, 111, 115, 97>>, lat |-> 349381, lng |-> -1046836],  \* Santa Rosa
       [name |-> <<70, 111, 114, 116, 32, 83, 117, 109, 110, 101, 114>>, lat |-> 344725, lng |-> -1042436],  \* Fort Sumner
       [name |-> <<76, 111, 103, 97, 110>>, lat |-> 353586, lng |-> -1034189],  \* Logan
       [name |-> <<86, 97, 117, 103, 104, 110>>, lat |-> 345931, lng |-> -1051703],  \* Vaughn
       [name |-> <<83, 97, 110, 116, 97, 32, 84, 101, 114, 101, 115, 97>>, lat |-> 317901, lng |-> -1067019],  \* Santa Teresa
       [name |-> <<86, 97, 100, 111>>, lat |-> 321162, lng |-> -1066603],  \* Vado
       [name |-> <<72, 97, 116, 99, 104>>, lat |-> 326612, lng |-> -1071531],  \* Hatch
       [name |-> <<65, 114, 114, 101, 121>>, lat |-> 328292, lng |-> -1072758],  \* Arrey
       [name |-> <<69, 108, 101, 112, 104, 97, 110, 116, 32, 66, 117, 116, 116, 101>>, lat |-> 331470, lng |-> -1071858],  \* Elephant Butte
       [name |-> <<66, 97, 121, 97, 114, 100>>, lat |-> 327898, lng |-> -1081311],  \* Bayard
       [name |-> <<83, 97, 110, 32, 76, 111, 114, 101, 110, 122, 111>>, lat |-> 328631, lng |-> -1081300],  \* San Lorenzo
       [name |-> <<67, 111, 108, 117, 109, 98, 117, 115>>, lat |-> 318281, lng |-> -1076411],  \* Columbus
       [name |-> <<76, 111, 114, 100, 115, 98, 117, 114, 103>>, lat |-> 323506, lng |-> -1087114],  \* Lordsburg
       [name |-> <<84, 117, 108, 97, 114, 111, 115, 97>>, lat |-> 330742, lng |-> -1059547],  \* Tularosa
       [name |-> <<67, 108, 111, 117, 100, 99, 114, 111, 102, 116>>, lat |-> 329595, lng |-> -1057408],  \* Cloudcroft
       [name |-> <<82, 117, 105, 100, 111, 115, 111, 32, 68, 111, 119, 110, 115>>, lat |-> 333206, lng |-> -1056086],  \* Ruidoso Downs
       [name |-> <<67, 97, 114, 114, 105, 122, 111, 122, 111>>, lat |-> 336431, lng |-> -1058769],  \* Carrizozo
       [name |-> <<67, 97, 112, 105, 116, 97, 110>>, lat |-> 335453, lng |-> -1055850],  \* Capitan
       [name |-> <<65, 108, 116, 111>>, lat |-> 333658, lng |-> -1056836],  \* Alto
       [name |-> <<76, 111, 118, 105, 110, 103>>, lat |-> 322890, lng |-> -1039311],  \* Loving
       [name |-> <<84, 97, 116, 117, 109>>, lat |-> 332531, lng |-> -1033155],  \* Tatum
       [name |-> <<84, 101, 120, 105, 99, 111>>, lat |-> 343925, lng |-> -1030497],  \* Texico
       [name |-> <<71, 108, 101, 110, 114, 105, 111>>, lat |-> 351856, lng |-> -1030419],  \* Glenrio
       [name |-> <<82, 111, 100, 101, 111>>, lat |-> 318356, lng |-> -1090311],  \* Rodeo
       [name |-> <<84, 105, 109, 98, 101, 114, 111, 110>>, lat |-> 326281, lng |-> -1056969],  \* Timberon
       [name |-> <<89, 97, 104, 32, 84, 97, 32, 72, 101, 121>>, lat |-> 356508, lng |-> -1087881],  \* Yah Ta Hey
       [name |-> <<77, 111, 114, 97>>, lat |-> 360047, lng |-> -1053281],  \* Mora
       [name |-> <<69, 97, 103, 108, 101, 32, 78, 101, 115, 116>>, lat |-> 365394, lng |-> -1052708]  \* Eagle Nest
    }

HasCity(name) == \E c \in GetCityCoordinates : c.name = name

\* cityCoords[name], for a name of the table
CityCoords(name) == CHOOSE c \in GetCityCoordinates : c.name = name

\* A value of the cache object: null, or an object with lat and lng
NullEntry == [t |-> "null", lat |-> JsUndef, lng |-> JsUndef]
Entry(lat, lng) == [t |-> "obj", lat |-> lat, lng |-> lng]
NoEntry == [t |-> "undef", lat |-> JsUndef, lng |-> JsUndef]

\* obj[key] of an object kept as the sequence of its [key, val] properties
Lookup(obj, key) ==
    IF \E i \in 1..Len(obj) : obj[i].key = key
    THEN obj[CHOOSE i \in 1..Len(obj) : obj[i].key = key].val
    ELSE NoEntry

\* obj[key] = val
Assign(obj, key, val) ==
    IF \E i \in 1..Len(obj) : obj[i].key = key
    THEN [i \in 1..Len(obj) |-> IF obj[i].key = key THEN [key |-> key, val |-> val] ELSE obj[i]]
    ELSE Append(obj, [key |-> key, val |-> val])

\* Object.keys(geoCache).forEach(key => geoCacheNorm[norm(key)] = geoCache[key])
RECURSIVE BuildNorm(_, _)
BuildNorm(obj, acc) ==
    IF obj = <<>> THEN acc
    ELSE BuildNorm(Tail(obj), Assign(acc, Norm(Head(obj).key), Head(obj).val))

\* this.geoCache / this.geoCacheNorm: null, or an object
NullCache == [loaded |-> FALSE, obj |-> <<>>]
LoadedCache(obj) == [loaded |-> TRUE, obj |-> obj]

\* hit && isFinite(hit.lat) && isFinite(hit.lng)
IsHit(hit) == hit.t = "obj" /\ IsFinite(hit.lat) /\ IsFinite(hit.lng)

----------------------------------------------------------------------------
(* Coordinate resolution: the body of updateMap's forEach callback *)

\* let lat = null; let lng = null
NoPosition == [lat |-> JsNull, lng |-> JsNull, tier |-> "none"]

\* lat == null || lng == null
Unresolved(p) == IsNullish(p.lat) \/ IsNullish(p.lng)

\* Tier 1: the record's own latitude and longitude
ExplicitCoordinates(d) ==
    IF ~IsNullish(d.latitude) /\ ~IsNullish(d.longitude)
    THEN LET latNum == ParseFloat(d.latitude)
             lngNum == ParseFloat(d.longitude)
         IN  IF latNum.t = "num" /\ lngNum.t = "num"
             THEN [lat |-> latNum, lng |-> lngNum, tier |-> "explicit"]
             ELSE NoPosition
    ELSE NoPosition

\* Candidate keys without the one-decimal form of the postal code
CandidatesPlainZip(d) ==
    IF Trim(OrEmpty(d.address)) # <<>> /\ Trim(OrEmpty(d.city)) # <<>>
    THEN <<Trim(OrEmpty(d.address)) \o <<44, 32>> \o Trim(OrEmpty(d.city))>>
         \o (IF ~IsNullish(d.zip)
             THEN <<Trim(OrEmpty(d.address)) \o <<44, 32>> \o Trim(OrEmpty(d.city))
                    \o <<32>> \o ToStringZip(d.zip)>>
             ELSE <<>>)
    ELSE <<>>

\* The candidate keys, in the order they are pushed
Candidates(d) ==
    LET addr == Trim(OrEmpty(d.address))
        cty == Trim(OrEmpty(d.city))
        base == addr \o <<44, 32>> \o cty
        zipStr == ToStringZip(d.zip)
    IN  IF addr # <<>> /\ cty # <<>>
        THEN <<base>>
             \o (IF ~IsNullish(d.zip)
                 THEN <<base \o <<32>> \o zipStr>>
                      \o (IF ~Includes(zipStr, <<46>>)
                          THEN <<base \o <<32>> \o ToFixed1(d.zip)>>
                          ELSE <<>>)
                 ELSE <<>>)
        ELSE <<>>

\* for (const key of candidates) { const hit = obj[key]; if (hit && ...) {...; break} }
RECURSIVE FirstHit(_, _, _, _)
FirstHit(obj, keys, p, tier) ==
    IF keys = <<>> THEN p
    ELSE LET hit == Lookup(obj, Head(keys))
         IN  IF IsHit(hit)
             THEN [lat |-> hit.lat, lng |-> hit.lng, tier |-> tier]
             ELSE FirstHit(obj, Tail(keys), p, tier)

NormKeys(keys) == [i \in 1..Len(keys) |-> Norm(keys[i])]

\* Tiers 2 and 3: the geocode cache by exact key, then by normalized key
NormLookup(candidates, q, gcn) ==
    IF Unresolved(q) /\ gcn.loaded /\ candidates # <<>>
    THEN FirstHit(gcn.obj, NormKeys(candidates), q, "normalized")
    ELSE q

ExactLookup(candidates, p, gc, gcn) ==
    Const(FirstHit(gc.obj, candidates, p, "exact"),
          LAMBDA q : NormLookup(candidates, q, gcn))

\* A lookup that asks the normalized index before the exact keys
CacheLookupNormFirst(d, p, gc, gcn) ==
    IF Unresolved(p) /\ gc.loaded
    THEN Const(NormLookup(Candidates(d), p, gcn),
               LAMBDA q : IF Unresolved(q) THEN FirstHit(gc.obj, Candidates(d), q, "exact")
                          ELSE q)
    ELSE p

CacheLookup(d, p, gc, gcn) ==
    IF Unresolved(p) /\ gc.loaded
    THEN Const(Candidates(d), LAMBDA candidates : ExactLookup(candidates, p, gc, gcn))
    ELSE p

\* `${s}` of a string property
Template(s) == IF s = Undefined THEN <<117, 110, 100, 101, 102, 105, 110, 101, 100>> ELSE s

\* The scale updateMap passes to getStableJitter: 0.004 degree
JitterScale == 40

\* getStableJitter(seed, 0.004), tabulated once for the seeds of the records
\* of the model: the function is pure
JitterTable ==
    [seed \in {Template(d.address) \o <<124>> \o Template(d.licensee) : d \in Records}
        |-> GetStableJitter(seed, JitterScale)]

Jitter(seed) ==
    IF seed \in DOMAIN JitterTable THEN JitterTable[seed]
    ELSE GetStableJitter(seed, JitterScale)

\* Tier 4: the city's centroid plus the jitter seeded by address|licensee;
\* found is FALSE where the callback counts the record and returns
\* lat = coords.lat + jitter[0]; lng = coords.lng + jitter[1]
Jittered(coords, jitter) ==
    [found |-> TRUE, lat |-> Plus(coords.lat, jitter[1]),
     lng |-> Plus(coords.lng, jitter[2]), tier |-> "centroid"]

CentroidFallback(d, p) ==
    IF Unresolved(p)
    THEN IF ~HasCity(d.city)
         THEN [found |-> FALSE, lat |-> p.lat, lng |-> p.lng, tier |-> "none"]
         ELSE Const(Jitter(Template(d.address) \o <<124>> \o Template(d.licensee)),
                    LAMBDA jitter : Jittered(CityCoords(d.city), jitter))
    ELSE [found |-> TRUE, lat |-> p.lat, lng |-> p.lng, tier |-> p.tier]

\* A resolution that asks the geocode cache before the record's own coordinates
ResolveRecordCacheFirst(d, index, gc, gcn) ==
    Const(CacheLookup(d, NoPosition, gc, gcn),
          LAMBDA q : IF Unresolved(q) THEN CentroidFallback(d, ExplicitCoordinates(d))
                     ELSE CentroidFallback(d, q))

\* A resolution whose jitter is seeded by the record's position in the list
ResolveRecordByIndex(d, index, gc, gcn) ==
    Const(ExplicitCoordinates(d),
          LAMBDA p : Const(CacheLookup(d, p, gc, gcn),
              LAMBDA q : IF Unresolved(q) /\ HasCity(d.city)
                         THEN Jittered(CityCoords(d.city),
                                       Jitter(Template(d.address) \o <<124>> \o DigitsOf(index)))
                         ELSE CentroidFallback(d, q)))

\* (dispensary, index) => { ... } up to L.circleMarker([lat, lng], ...)
ResolveRecord(d, index, gc, gcn) ==
    Const(ExplicitCoordinates(d),
          LAMBDA p : Const(CacheLookup(d, p, gc, gcn), LAMBDA q : CentroidFallback(d, q)))

\* The popup template reads dispensary.trend_direction.toUpperCase(): a
\* TypeError when the label is absent
PopupThrows(d) == d.trend_direction = Undefined

\* A marker: the record it was made for, its coordinate, and (for the
\* properties) the tier that produced the coordinate
Marker(d, r) == [d |-> d, lat |-> r.lat, lng |-> r.lng, tier |-> r.tier]

\* The callback from the resolved position r on: acc is what the loop has
\* done so far. A throw in the popup template leaves the marker on the map and
\* not in this.markers
Callback(acc, d, r) ==
    IF ~r.found
    THEN [acc EXCEPT !.coordsNotFound = @ + 1, !.tiers = Append(@, "none")]
    ELSE IF PopupThrows(d)
    THEN [acc EXCEPT !.stray = @ \cup {Marker(d, r)}, !.threw = TRUE,
                     !.tiers = Append(@, r.tier)]
    ELSE [acc EXCEPT !.markers = Append(@, Marker(d, r)), !.markersAdded = @ + 1,
                     !.tiers = Append(@, r.tier)]

\* this.filteredData.forEach(...): a throw in the callback ends the loop
RECURSIVE ForEachRecord(_, _, _, _, _)
ForEachRecord(fd, i, acc, gc, gcn) ==
    IF i > Len(fd) \/ acc.threw THEN acc
    ELSE Const(Const(ResolveRecord(fd[i], i - 1, gc, gcn),
                     LAMBDA r : Callback(acc, fd[i], r)),
               LAMBDA next : ForEachRecord(fd, i + 1, next, gc, gcn))

LoopStart ==
    [markers |-> <<>>, stray |-> {}, markersAdded |-> 0, coordsNotFound |-> 0,
     tiers |-> <<>>, threw |-> FALSE]

\* What an updateMap call leaves behind. status: "early" (returned at the
\* guard), "aborted" (the callback threw), "logged" (the summary was logged and
\* this.data.locations then threw on a null this.data), "done".
RunRecord(status, acc) ==
    [status |-> status, markersAdded |-> acc.markersAdded,
     coordsNotFound |-> acc.coordsNotFound, tiers |-> acc.tiers]

NoRun == RunRecord("none", LoopStart)

MarkerSet(ms) == {ms[i] : i \in 1..Len(ms)}

\* updateMap(): the new markers, stray layers and run record, and whether it threw
AfterLoop(acc, dat, oldStray) ==
    [markers |-> acc.markers, stray |-> oldStray \cup acc.stray,
     threw |-> acc.threw \/ dat.t = "null",
     run |-> RunRecord(IF acc.threw THEN "aborted"
                       ELSE IF dat.t = "null" THEN "logged" ELSE "done", acc)]

UpdateMap(fd, mapExists, dat, oldMarkers, oldStray, gc, gcn) ==
    IF ~mapExists
    THEN [markers |-> oldMarkers, stray |-> oldStray, threw |-> FALSE,
          run |-> RunRecord("early", LoopStart)]
    ELSE Const(ForEachRecord(fd, 1, LoopStart, gc, gcn),
               LAMBDA acc : AfterLoop(acc, dat, oldStray))

----------------------------------------------------------------------------
(* Trend buckets and statistics *)

\* A bucket mapping that compares the label instead of searching it
BaseTrendExact(label) ==
    IF label = Undefined \/ label = <<>> THEN STABLE
    ELSE IF ToLowerCase(label) = UP THEN UP
    ELSE IF ToLowerCase(label) = DOWN THEN DOWN
    ELSE STABLE

\* baseTrend(trend)
BaseTrend(label) ==
    IF label = Undefined \/ label = <<>> THEN STABLE
    ELSE LET t == ToLowerCase(label)
         IN  IF Includes(t, UP) THEN UP
             ELSE IF Includes(t, DOWN) THEN DOWN
             ELSE STABLE

\* The number of elements of ds that calculateStats counts under key
CountKey(ds, key) ==
    Cardinality({i \in 1..Len(ds) : BaseTrend(ds[i].trend_direction) = key})

\* calculateStats(dispensaries)
CalculateStats(ds) ==
    [up |-> CountKey(ds, UP), down |-> CountKey(ds, DOWN), stable |-> CountKey(ds, STABLE)]

\* The content of #map-results-count
InitialText == [kind |-> "initial", total |-> 0, up |-> 0, down |-> 0, stable |-> 0]
ErrorText == [kind |-> "error", total |-> 0, up |-> 0, down |-> 0, stable |-> 0]
NoMatchText == [kind |-> "nomatch", total |-> 0, up |-> 0, down |-> 0, stable |-> 0]

\* updateStats()
UpdateStats(fd) ==
    IF Len(fd) = 0 THEN NoMatchText
    ELSE LET stats == CalculateStats(fd)
         IN  [kind |-> "showing", total |-> Len(fd), up |-> stats.up,
              down |-> stats.down, stable |-> stats.stable]

\* updateDisplay(): updateMap, then updateStats unless updateMap threw
ThenStats(um, fd, oldResults) ==
    [markers |-> um.markers, stray |-> um.stray, run |-> um.run, threw |-> um.threw,
     results |-> IF um.threw THEN oldResults ELSE UpdateStats(fd)]

UpdateDisplay(fd, mapExists, dat, oldMarkers, oldStray, oldResults, gc, gcn) ==
    Const(UpdateMap(fd, mapExists, dat, oldMarkers, oldStray, gc, gcn),
          LAMBDA um : ThenStats(um, fd, oldResults))

----------------------------------------------------------------------------
(* The dataset document and the filters *)

\* this.data: null, or the parsed document. loc is locations.data and disp is
\* dispensaries, each "absent", an "array" (arr its elements), and for loc also
\* a non-empty "str" (arr its characters) or another "obj"ect
Absent == [t |-> "absent", arr |-> <<>>]
Array(arr) == [t |-> "array", arr |-> arr]
NullData == [t |-> "null", loc |-> Absent, disp |-> Absent, regions |-> <<>>]
Doc(loc, disp, regions) == [t |-> "doc", loc |-> loc, disp |-> disp, regions |-> regions]

\* this.data.locations && this.data.locations.data ? this.data.locations.data
\*                                                  : this.data.dispensaries
Source(dat) == IF dat.loc.t # "absent" THEN dat.loc ELSE dat.disp

\* [...source] succeeds: source is iterable
Iterable(src) == src.t \in {"array", "str"}

\* The search callback reads d.licensee, d.address, d.city in turn, up to the
\* first that includes the term; toLowerCase of an undefined one throws
SearchThrows(d, term) ==
    \/ d.licensee = Undefined
    \/ /\ ~Includes(ToLowerCase(d.licensee), term)
       /\ \/ d.address = Undefined
          \/ /\ ~Includes(ToLowerCase(d.address), term)
             /\ d.city = Undefined

SearchMatches(d, term) ==
    \/ Includes(ToLowerCase(d.licensee), term)
    \/ Includes(ToLowerCase(d.address), term)
    \/ Includes(ToLowerCase(d.city), term)

BySearch(ds, searchValue) ==
    LET term == ToLowerCase(searchValue)
    IN  IF term # <<>> THEN SelectSeq(ds, LAMBDA d : SearchMatches(d, term)) ELSE ds

ByRegion(ds, selectedRegion) ==
    IF selectedRegion # <<>> THEN SelectSeq(ds, LAMBDA d : d.region = selectedRegion) ELSE ds

ByCity(ds, selectedCity) ==
    IF selectedCity # <<>> THEN SelectSeq(ds, LAMBDA d : d.city = selectedCity) ELSE ds

ByTrend(ds, trendFilter) ==
    IF trendFilter # ALL
    THEN SelectSeq(ds, LAMBDA d : BaseTrend(d.trend_direction) = trendFilter) ELSE ds

\* A filter chain whose trend filter starts again from the source
FilteredTrendOfSource(source, searchValue, selectedRegion, selectedCity, trendFilter) ==
    IF trendFilter # ALL
    THEN ByTrend(source, trendFilter)
    ELSE ByCity(ByRegion(BySearch(source, searchValue), selectedRegion), selectedCity)

\* The value applyFilters assigns to this.filteredData
Filtered(source, searchValue, selectedRegion, selectedCity, trendFilter) ==
    ByTrend(ByCity(ByRegion(BySearch(source, searchValue), selectedRegion), selectedCity),
            trendFilter)

\* applyFilters throws before the assignment: the spread of a source that is
\* not iterable, or the search callback on an element without the properties
FilterThrows(dat, searchValue) ==
    \/ ~Iterable(Source(dat))
    \/ /\ ToLowerCase(searchValue) # <<>>
       /\ \E i \in 1..Len(Source(dat).arr) :
             SearchThrows(Source(dat).arr[i], ToLowerCase(searchValue))

Placements(ms, stray) ==
    {[d |-> m.d, lat |-> m.lat, lng |-> m.lng] : m \in MarkerSet(ms) \cup stray}

\* this.updateDisplay() with this.filteredData = fd and this.map as mapExists
Display(fd, mapExists) ==
    \E o \in {UpdateDisplay(fd, mapExists, data, markers, strayLayers, results,
                            geoCache, geoCacheNorm)} :
        /\ markers' = o.markers
        /\ strayLayers' = o.stray
        /\ lastRun' = o.run
        /\ results' = o.results
        /\ placed' = placed \cup Placements(o.markers, o.stray)

\* What applyFilters read from the controls: #search, #region-filter,
\* #city-filter, the active trend button
Controls(s, r, c, t) == [search |-> s, region |-> r, city |-> c, trend |-> t]

\* No applyFilters call has got as far as filtering
NoApply == [search |-> Undefined, region |-> Undefined, city |-> Undefined,
            trend |-> Undefined]

\* An applyFilters that narrows the previous this.filteredData
ApplyFiltersOfFiltered(s, r, c, t) ==
    IF data.t = "null" \/ FilterThrows(data, s)
    THEN UNCHANGED <<filteredData, markers, strayLayers, lastRun, results, placed, applied>>
    ELSE \E fd \in {Filtered(filteredData, s, r, c, t)} :
             /\ filteredData' = fd
             /\ applied' = Controls(s, r, c, t)
             /\ Display(fd, map)

\* applyFilters() with the controls at s, r, c, t
ApplyFilters(s, r, c, t) ==
    IF data.t = "null" \/ FilterThrows(data, s)
    THEN UNCHANGED <<filteredData, markers, strayLayers, lastRun, results, placed, applied>>
    ELSE \E fd \in {Filtered(Source(data).arr, s, r, c, t)} :
             /\ filteredData' = fd
             /\ applied' = Controls(s, r, c, t)
             /\ Display(fd, map)

----------------------------------------------------------------------------
(* The inputs *)

BoundedSeq(S, n) == UNION {[1..k -> S] : k \in 0..n}

\* The arrays of at most n records, repetitions included, that keep the
\* order of RecordList
Arrays(n) ==
    {[i \in 1..Len(f) |-> RecordList[f[i]]] :
        f \in {g \in BoundedSeq(DOMAIN RecordList, n) :
                  \A i \in 1..(Len(g) - 1) : g[i] <= g[i + 1]}}

Datasets == Arrays(MaxData)
LegacyDatasets == Arrays(MaxLegacy)

Regions == <<North>>

\* The documents dispensary_data.json may hold
Docs ==
    {Doc(Array(ds), Absent, Regions) : ds \in Datasets}
    \cup {Doc(Absent, Array(ds), Regions) : ds \in LegacyDatasets}
    \cup {Doc(Absent, Absent, Regions),
          Doc([t |-> "str", arr |-> <<CharElement, CharElement>>], Absent, Regions),
          Doc([t |-> "obj", arr |-> <<>>], Absent, Regions)}

PlaceA == Entry(Num(321100), Num(-1031900))
PlaceB == Entry(Num(321200), Num(-1032000))

\* The properties geocoded_cache.json may hold: "1 St., Jal", "1 st jal" (null,
\* a failed lookup), "1 St., Jal 88252.0" and "1 ST.,  JAL"
CacheEntries ==
    {[key |-> <<49, 32, 83, 116, 46, 44, 32, 74, 97, 108>>, val |-> PlaceA],
     [key |-> <<49, 32, 115, 116, 32, 106, 97, 108>>, val |-> NullEntry],
     [key |-> <<49, 32, 83, 116, 46, 44, 32, 74, 97, 108, 32, 56, 56, 50, 53, 50, 46, 48>>,
      val |-> PlaceB],
     [key |-> <<49, 32, 83, 84, 46, 44, 32, 32, 74, 65, 76>>, val |-> PlaceB]}

Caches ==
    {c \in BoundedSeq(CacheEntries, MaxCache) :
        \A i, j \in 1..Len(c) : c[i].key = c[j].key => i = j}

\* What the user may type into #search: nothing, or "St"
SearchTerms == {<<>>, <<83, 116>>}

\* data-trend of the .trend-filter buttons
TrendButtons == {ALL, UP, DOWN, STABLE}

Failures == {"reject", "notOk", "badJson"}

----------------------------------------------------------------------------
(* createMiniSparkline *)

MaxPoints == 3    \* elements of a monthly_data array

\* An element of monthly_data: null, or an object with month and total_sales
NullPoint == [isNull |-> TRUE, month |-> Undefined, total_sales |-> JsUndef]
MonthlyPoint(month, total_sales) ==
    [isNull |-> FALSE, month |-> month, total_sales |-> total_sales]

\* d && d.month && d.total_sales !== undefined && d.total_sales !== null
ValidPoint(d) ==
    /\ ~d.isNull
    /\ d.month # Undefined
    /\ d.month # <<>>
    /\ ~IsNullish(d.total_sales)

\* a.localeCompare(b) <= 0 for month keys "YYYY-MM": digits and hyphens collate
\* in the order of their code units
RECURSIVE LocaleCompareLeq(_, _)
LocaleCompareLeq(a, b) ==
    IF a = <<>> THEN TRUE
    ELSE IF b = <<>> THEN FALSE
    ELSE IF Head(a) # Head(b) THEN Head(a) < Head(b)
    ELSE LocaleCompareLeq(Tail(a), Tail(b))

\* One step of the stable sort: d goes after the last element not after it
RECURSIVE InsertByMonth(_, _)
InsertByMonth(sorted, d) ==
    IF sorted = <<>> THEN <<d>>
    ELSE IF LocaleCompareLeq(sorted[Len(sorted)].month, d.month) THEN Append(sorted, d)
    ELSE Append(InsertByMonth(SubSeq(sorted, 1, Len(sorted) - 1), d), sorted[Len(sorted)])

\* .sort((a, b) => a.month.localeCompare(b.month)); Array.prototype.sort is stable
RECURSIVE SortByMonth(_)
SortByMonth(arr) ==
    IF arr = <<>> THEN <<>>
    ELSE InsertByMonth(SortByMonth(SubSeq(arr, 1, Len(arr) - 1)), arr[Len(arr)])

\* A filter that lets negative values through
KeepValueAnySign(v) == ToNumber(v).t = "num"

\* !isNaN(v) && v >= 0
KeepValue(v) == ToNumber(v).t = "num" /\ ToNumber(v).u >= 0

\* sortedData.map(d => d.total_sales).filter(...), as numbers
SalesOf(sortedData) ==
    LET kept == SelectSeq([i \in 1..Len(sortedData) |-> sortedData[i].total_sales], KeepValue)
    IN  [i \in 1..Len(kept) |-> ToNumber(kept[i]).u]

\* Lines 550-553
Values(monthlyData) == SalesOf(SortByMonth(SelectSeq(monthlyData, ValidPoint)))

\* Math.min(...values), Math.max(...values) of a non-empty array
MathMin(values) == CHOOSE m \in {values[i] : i \in 1..Len(values)} :
                      \A i \in 1..Len(values) : m <= values[i]
MathMax(values) == CHOOSE m \in {values[i] : i \in 1..Len(values)} :
                      \A i \in 1..Len(values) : m >= values[i]

width == 100
height == 40
padding == 5
drawWidth == width - (padding * 2)
drawHeight == height - (padding * 2)

\* A canvas coordinate is a fraction <<numerator, denominator>> of a pixel
Px(n) == <<n, 1>>

\* What the canvas shows: filled discs and stroked paths, in drawing order
\* ctx.beginPath(); ctx.arc(x, y, r, 0, 2 * Math.PI); ctx.fill()
FillArc(x, y, r, fillStyle) ==
    [op |-> "fill", path |-> <<<<x, y>>>>, size |-> r, style |-> fillStyle]

\* ctx.beginPath(); moveTo(first); lineTo(each other point); ctx.stroke()
StrokePath(path, lineWidth, strokeStyle) ==
    [op |-> "stroke", path |-> path, size |-> lineWidth, style |-> strokeStyle]

\* Lines 557-560: the dot at the centre
CentreDot == <<FillArc(Px(width \div 2), Px(height \div 2), 3, "#999")>>

\* Lines 571-576: the flat line
FlatLine ==
    <<StrokePath(<<<<Px(5), Px(height \div 2)>>, <<Px(width - 5), Px(height \div 2)>>>>,
                 2, "#999")>>

\* padding + (index / (values.length - 1)) * drawWidth
PlotX(index, n) == <<padding * (n - 1) + index * drawWidth, n - 1>>

\* padding + (drawHeight - ((value - minValue) / range * drawHeight))
PlotY(value, minValue, range) ==
    <<(padding + drawHeight) * range - (value - minValue) * drawHeight, range>>

\* Lines 581-589: the colour of the line
TrendColour(firstValue, lastValue) ==
    IF lastValue > firstValue THEN "#10b981"
    ELSE IF lastValue < firstValue THEN "#ef4444"
    ELSE "#f59e0b"

\* Lines 591-628: the line through every value, and a dot at each end
Plot(values, minValue, range) ==
    LET n == Len(values)
        colour == TrendColour(values[1], values[n])
    IN  <<StrokePath([i \in 1..n |-> <<PlotX(i - 1, n), PlotY(values[i], minValue, range)>>],
                     2, colour),
          FillArc(Px(padding), PlotY(values[1], minValue, range), 2, colour),
          FillArc(Px(padding + drawWidth), PlotY(values[n], minValue, range), 2, colour)>>

\* Lines 555-628: what is drawn on the cleared canvas
Sparkline(values) ==
    IF Len(values) < 2 THEN CentreDot
    ELSE IF MathMax(values) - MathMin(values) = 0 THEN FlatLine
    ELSE Plot(values, MathMin(values), MathMax(values) - MathMin(values))

\* createMiniSparkline(canvasId, monthlyData): the new content of the canvas.
\* Without the element or its 2d context nothing is touched; clearRect wipes
\* the whole 100 x 40 canvas before anything is drawn
CreateMiniSparkline(element, shown, monthlyData) ==
    IF element # "canvas" THEN shown ELSE Sparkline(Values(monthlyData))

NoChart == [element |-> "absent", monthlyData |-> <<>>, shown |-> <<>>, pc |-> "closed"]

\* No seededRandom or getStableJitter call is under way
NoCall == [seed |-> <<>>, scale |-> 0, pc |-> "none", random |-> JsUndef, jitter |-> <<>>]

----------------------------------------------------------------------------
(* The state machine *)

\* The fields the constructor sets, and the page as it is served
Constructed ==
    /\ pc = "fetchData"
    /\ dataFetch = "pending"
    /\ geoFetch = "pending"
    /\ data = NullData
    /\ filteredData = <<>>
    /\ map = FALSE
    /\ markers = <<>>
    /\ strayLayers = {}
    /\ geoCache = NullCache
    /\ geoCacheNorm = NullCache
    /\ listeners = FALSE
    /\ regionOptions = {}
    /\ cityOptions = {}
    /\ search = <<>>
    /\ region = <<>>
    /\ city = <<>>
    /\ trend = ALL
    /\ results = InitialText
    /\ lastRun = NoRun
    /\ placed = {}
    /\ applied = NoApply

Init ==
    /\ Constructed
    /\ chart = NoChart
    /\ rand = NoCall

\* loadData up to this.data = await response.json(): a failure goes to the
\* catch block, showError, and loadData returns
FetchDatasetFails ==
    /\ UNCHANGED <<chart, rand>>
    /\ pc = "fetchData"
    /\ \E f \in Failures : dataFetch' = f
    /\ results' = ErrorText
    /\ pc' = "afterLoad"
    /\ UNCHANGED <<geoFetch, data, filteredData, map, markers, strayLayers, geoCache,
                   geoCacheNorm, listeners, regionOptions, cityOptions, search, region,
                   city, trend, lastRun, placed, applied>>

FetchDatasetOk ==
    /\ UNCHANGED <<chart, rand>>
    /\ pc = "fetchData"
    /\ \E doc \in Docs : data' = doc
    /\ dataFetch' = "ok"
    /\ pc' = "fetchCache"
    /\ UNCHANGED <<geoFetch, filteredData, map, markers, strayLayers, geoCache,
                   geoCacheNorm, listeners, regionOptions, cityOptions, search, region,
                   city, trend, results, lastRun, placed, applied>>

\* A loadData in which a failed cache fetch reaches the outer catch block
UseDatasetCacheRequired ==
    IF geoCache' = NullCache
    THEN results' = ErrorText /\ UNCHANGED filteredData
    ELSE IF data.loc.t = "array"
    THEN filteredData' = data.loc.arr /\ UNCHANGED results
    ELSE IF data.disp.t = "array"
    THEN filteredData' = data.disp.arr /\ UNCHANGED results
    ELSE results' = ErrorText /\ UNCHANGED filteredData

\* Lines 61-75: the dataset is taken from the document, or the error is shown
UseDataset ==
    IF data.loc.t = "array"
    THEN filteredData' = data.loc.arr /\ UNCHANGED results
    ELSE IF data.disp.t = "array"
    THEN filteredData' = data.disp.arr /\ UNCHANGED results
    ELSE results' = ErrorText /\ UNCHANGED filteredData

\* The cache fetch fails (rejects, is not OK, or its body does not parse):
\* a warning is logged, and loadData goes on to the dataset
FetchGeoCacheFails ==
    /\ UNCHANGED <<chart, rand>>
    /\ pc = "fetchCache"
    /\ \E f \in Failures : geoFetch' = f
    /\ UNCHANGED <<geoCache, geoCacheNorm>>
    /\ UseDataset
    /\ pc' = "afterLoad"
    /\ UNCHANGED <<dataFetch, data, map, markers, strayLayers, listeners, regionOptions,
                   cityOptions, search, region, city, trend, lastRun, placed, applied>>

FetchGeoCacheOk ==
    /\ UNCHANGED <<chart, rand>>
    /\ pc = "fetchCache"
    /\ geoFetch' = "ok"
    /\ \E c \in Caches :
          /\ geoCache' = LoadedCache(c)
          /\ geoCacheNorm' = LoadedCache(BuildNorm(c, <<>>))
    /\ UseDataset
    /\ pc' = "afterLoad"
    /\ UNCHANGED <<dataFetch, data, map, markers, strayLayers, listeners, regionOptions,
                   cityOptions, search, region, city, trend, lastRun, placed, applied>>

\* The cities populateFilters offers
CityChoices(src) ==
    {src.arr[i].city : i \in 1..Len(src.arr)} \ {c \in {src.arr[i].city : i \in 1..Len(src.arr)} :
                                                    c = <<>> \/ Trim(c) = <<>>}

\* populateFilters throws at source.map(...): source is not an array
PopulateThrows(dat) == dat.t = "doc" /\ Source(dat).t # "array"

\* init() after await this.loadData(): setupEventListeners, populateFilters,
\* initMap, updateDisplay, in one turn of the event loop
InitAfterLoad ==
    /\ UNCHANGED <<chart, rand>>
    /\ pc = "afterLoad"
    /\ pc' = "idle"
    /\ listeners' = TRUE
    /\ regionOptions' = IF data.t = "doc"
                        THEN {data.regions[i] : i \in 1..Len(data.regions)} ELSE {}
    /\ IF PopulateThrows(data)
       THEN UNCHANGED <<cityOptions, map, markers, strayLayers, lastRun, results, placed>>
       ELSE /\ cityOptions' = IF data.t = "doc" THEN CityChoices(Source(data)) ELSE {}
            /\ map' = TRUE
            /\ Display(filteredData, TRUE)
    /\ UNCHANGED <<dataFetch, geoFetch, data, filteredData, geoCache, geoCacheNorm,
                   search, region, city, trend, applied>>

\* The user edits #search; the input listener, once attached, runs applyFilters
InputSearch ==
    /\ UNCHANGED <<chart, rand>>
    /\ \E term \in SearchTerms \ {search} :
          /\ search' = term
          /\ IF listeners
             THEN ApplyFilters(term, region, city, trend)
             ELSE UNCHANGED <<filteredData, markers, strayLayers, lastRun, results, placed,
                              applied>>
    /\ UNCHANGED <<pc, dataFetch, geoFetch, data, map, geoCache, geoCacheNorm, listeners,
                   regionOptions, cityOptions, region, city, trend>>

\* The user picks another option of #region-filter
ChangeRegion ==
    /\ UNCHANGED <<chart, rand>>
    /\ listeners
    /\ \E r \in (regionOptions \cup {<<>>}) \ {region} :
          /\ region' = r
          /\ ApplyFilters(search, r, city, trend)
    /\ UNCHANGED <<pc, dataFetch, geoFetch, data, map, geoCache, geoCacheNorm, listeners,
                   regionOptions, cityOptions, search, city, trend>>

\* The user picks another option of #city-filter
ChangeCity ==
    /\ UNCHANGED <<chart, rand>>
    /\ listeners
    /\ \E c \in (cityOptions \cup {<<>>}) \ {city} :
          /\ city' = c
          /\ ApplyFilters(search, region, c, trend)
    /\ UNCHANGED <<pc, dataFetch, geoFetch, data, map, geoCache, geoCacheNorm, listeners,
                   regionOptions, cityOptions, search, region, trend>>

\* The user clicks a .trend-filter button (the active one included)
ClickTrend ==
    /\ UNCHANGED <<chart, rand>>
    /\ listeners
    /\ \E t \in TrendButtons :
          /\ trend' = t
          /\ ApplyFilters(search, region, city, t)
    /\ UNCHANGED <<pc, dataFetch, geoFetch, data, map, geoCache, geoCacheNorm, listeners,
                   regionOptions, cityOptions, search, region, city>>

Next ==
    \/ FetchDatasetFails
    \/ FetchDatasetOk
    \/ FetchGeoCacheFails
    \/ FetchGeoCacheOk
    \/ InitAfterLoad
    \/ InputSearch
    \/ ChangeRegion
    \/ ChangeCity
    \/ ClickTrend

Spec == Init /\ [][Next]_vars

----------------------------------------------------------------------------
(* createMiniSparkline on the monthly_data of a record whose popup opens *)

pageVars == <<pc, dataFetch, geoFetch, data, filteredData, map, markers, strayLayers,
              geoCache, geoCacheNorm, listeners, regionOptions, cityOptions,
              search, region, city, trend, results, lastRun, placed, applied>>

January == <<50, 48, 50, 53, 45, 48, 49>>
February == <<50, 48, 50, 53, 45, 48, 50>>

\* total_sales of a point: absent, null, not a number, negative, or a sale
SalesValues ==
    {JsUndef, JsNull, Str(<<97, 98, 99>>), Num(-5), Num(0), Num(500), Num(700)}

MonthlyPoints ==
    {NullPoint, MonthlyPoint(Undefined, Num(500))}
        \cup {MonthlyPoint(m, v) : m \in {January, February}, v \in SalesValues}

\* The element getElementById finds, the array passed, and a canvas that
\* shows nothing yet or what an earlier call drew
Charts ==
    [element : {"absent", "noContext", "canvas"},
     monthlyData : BoundedSeq(MonthlyPoints, MaxPoints),
     shown : {<<>>, Sparkline(<<500, 700>>)},
     pc : {"scheduled"}]

SparklineInit ==
    /\ Constructed
    /\ chart \in Charts
    /\ rand = NoCall

\* The timeout of the popupopen handler fires (line 396)
PopupChart ==
    /\ chart.pc = "scheduled"
    /\ chart' = [chart EXCEPT
                    !.shown = CreateMiniSparkline(chart.element, chart.shown, chart.monthlyData),
                    !.pc = "done"]
    /\ UNCHANGED pageVars
    /\ UNCHANGED rand

SparklineSpec == SparklineInit /\ [][PopupChart]_vars

----------------------------------------------------------------------------
(* seededRandom and getStableJitter on the seeds a caller may pass *)

MaxSeed == 3      \* code units of a seed

\* The default scale of getStableJitter: 0.01 degree
DefaultScale == 100

\* "1", "A", "|", and two code units above 255: U+00E9 and U+FFFF
CodeUnits == {49, 65, 124, 233, 65535}

Seeds == BoundedSeq(CodeUnits, MaxSeed)

JitterInit ==
    /\ Constructed
    /\ chart = NoChart
    /\ rand \in [seed : Seeds, scale : {JitterScale, DefaultScale}, pc : {"called"},
                 random : {JsUndef}, jitter : {<<>>}]

\* this.seededRandom(seed)
CallSeededRandom ==
    /\ rand.pc = "called"
    /\ rand' = [rand EXCEPT !.random = SeededRandom(rand.seed), !.pc = "hashed"]
    /\ UNCHANGED pageVars
    /\ UNCHANGED chart

\* this.getStableJitter(seed, scale)
CallGetStableJitter ==
    /\ rand.pc = "hashed"
    /\ rand' = [rand EXCEPT !.jitter = GetStableJitter(rand.seed, rand.scale),
                            !.pc = "returned"]
    /\ UNCHANGED pageVars
    /\ UNCHANGED chart

JitterSpec == JitterInit /\ [][CallSeededRandom \/ CallGetStableJitter]_vars

----------------------------------------------------------------------------
(* What the properties below read off a state *)

\* The layers on the map: the markers of this.markers and the stray ones
Layers == MarkerSet(markers) \cup strayLayers

\* The last updateMap call got past its guard
RanLoop == lastRun.status \in {"done", "logged", "aborted"}

\* The last updateMap call visited every record of filteredData
VisitedAll == lastRun.status \in {"done", "logged"}

\* Both coordinates of d are non-null and parse to finite numbers
HasExplicit(d) ==
    /\ ~IsNullish(d.latitude) /\ ~IsNullish(d.longitude)
    /\ ParseFloat(d.latitude).t = "num" /\ ParseFloat(d.longitude).t = "num"

\* "<address>, <city>" of d
BaseKey(d) == Trim(OrEmpty(d.address)) \o <<44, 32>> \o Trim(OrEmpty(d.city))

\* d has an address and a city, and an integer postal code
HasIntegerZip(d) ==
    /\ Trim(OrEmpty(d.address)) # <<>> /\ Trim(OrEmpty(d.city)) # <<>>
    /\ d.zip.t = "num" /\ d.zip.fh = 0 /\ d.zip.fl = 0

\* "<address>, <city> <z>.0" of d
DotZeroKey(d) == BaseKey(d) \o <<32>> \o DigitsOf(d.zip.u) \o <<46, 48>>

\* No exact key of d is a usable property of the cache
NoExactHit(d) ==
    \A i \in 1..Len(Candidates(d)) : ~IsHit(Lookup(geoCache.obj, Candidates(d)[i]))

\* d has no explicit coordinates, no cache hit, and its city is in the table
CentroidCase(d) ==
    /\ ~HasExplicit(d)
    /\ Unresolved(CacheLookup(d, NoPosition, geoCache, geoCacheNorm))
    /\ HasCity(d.city)

\* d has no explicit coordinates, no cache hit, and its city is not in the table
NotFoundCase(d) ==
    /\ ~HasExplicit(d)
    /\ Unresolved(CacheLookup(d, NoPosition, geoCache, geoCacheNorm))
    /\ ~HasCity(d.city)

\* The primary dataset could not be loaded, and loadData has returned
DatasetFailed ==
    /\ pc \in {"afterLoad", "idle"}
    /\ \/ dataFetch \in Failures
       \/ data.loc.t # "array" /\ data.disp.t # "array"

\* d passes every active predicate of the controls a
Passes(d, a) ==
    /\ ToLowerCase(a.search) = <<>> \/ SearchMatches(d, ToLowerCase(a.search))
    /\ a.region = <<>> \/ d.region = a.region
    /\ a.city = <<>> \/ d.city = a.city
    /\ a.trend = ALL \/ BaseTrend(d.trend_direction) = a.trend

InSeq(d, ds) == \E i \in 1..Len(ds) : ds[i] = d

----------------------------------------------------------------------------
(* C1 *)

\* C1: every layer made for a record whose latitude and longitude are both
\* non-null and both parse to finite numbers sits exactly at the two parsed
\* numbers (36.5, -103.2 for RecExplicit), whatever the geocode cache and the
\* centroid table hold, and every such record a completed run visited has one.
ExplicitCoordinatesExact ==
    /\ \A m \in Layers :
          HasExplicit(m.d) =>
             /\ m.lat = ParseFloat(m.d.latitude)
             /\ m.lng = ParseFloat(m.d.longitude)
    /\ \A m \in Layers :
          m.d = RecExplicit => m.lat = Num(365000) /\ m.lng = Num(-1032000)
    /\ VisitedAll =>
          \A i \in 1..Len(filteredData) :
             HasExplicit(filteredData[i]) =>
                \E m \in MarkerSet(markers) : m.d = filteredData[i]

\* A marker of RecExplicit while the cache holds a usable entry under the
\* record's own key and the table holds its city
ExplicitBeatsCache ==
    \E m \in MarkerSet(markers) :
        /\ m.d = RecExplicit
        /\ geoCache.loaded
        /\ IsHit(Lookup(geoCache.obj, BaseKey(m.d)))
        /\ HasCity(m.d.city)

----------------------------------------------------------------------------
(* C2 *)

\* C2: a layer placed by the centroid tier is offset from its city's centroid
\* by at least -0.002 and less than +0.002 degree in latitude and in longitude
\* (-20..19 whole units of 0.0001 degree, plus a fraction in [0, 1)), and a
\* record with no explicit coordinates, no cache hit and a city of the table
\* is placed by that tier in every completed run that visited it.
JitterWithinScale ==
    /\ \A m \in Layers :
          m.tier = "centroid" =>
             /\ m.lat.t = "num" /\ m.lng.t = "num"
             /\ (m.lat.u - CityCoords(m.d.city).lat) \in -20..19
             /\ (m.lng.u - CityCoords(m.d.city).lng) \in -20..19
    /\ VisitedAll =>
          \A i \in 1..Len(filteredData) :
             CentroidCase(filteredData[i]) =>
                \E m \in MarkerSet(markers) :
                    m.d = filteredData[i] /\ m.tier = "centroid"

\* A marker of RecCached placed by the centroid tier although the cache is
\* loaded, at a point that is not the centroid itself
JitteredCentroid ==
    \E m \in MarkerSet(markers) :
        /\ m.d = RecCached
        /\ m.tier = "centroid"
        /\ geoCache.loaded /\ geoCache.obj # <<>>
        /\ (m.lat.fh # 0 \/ m.lat.u # CityCoords(m.d.city).lat)

----------------------------------------------------------------------------
(* C3 *)

\* C3: after every updateMap run, markers added + coordsNotFound is the number
\* of records of filteredData, the not-found count is the number of records
\* with no usable coordinates, no cache hit and no centroid, none of these has
\* a layer, and the results text counts every record of filteredData.
NotFoundAccounting ==
    RanLoop =>
       /\ lastRun.markersAdded + lastRun.coordsNotFound = Len(filteredData)
       /\ lastRun.coordsNotFound =
             Cardinality({i \in 1..Len(filteredData) : NotFoundCase(filteredData[i])})
       /\ \A m \in Layers : ~NotFoundCase(m.d)
       /\ results.kind = "showing" => results.total = Len(filteredData)

----------------------------------------------------------------------------
(* C4 *)

\* C4: once the primary dataset has failed to load, the results element shows
\* the error message and keeps it, no marker is on the map, and filteredData
\* holds nothing to render.
FatalErrorState ==
    DatasetFailed =>
       /\ results = ErrorText
       /\ Layers = {}
       /\ filteredData = <<>>

----------------------------------------------------------------------------
(* C5 *)

\* C5: when the geocode cache fetch has failed, geoCache and geoCacheNorm are
\* null, a document with a dataset array is loaded without an error state
\* (filteredData is the dataset when loadData returns), and every layer is
\* placed by the record's own coordinates or by the centroid tier: a record
\* without explicit coordinates lies within the jitter of its centroid or is
\* reported not found.
CacheFailureFallsBack ==
    geoFetch \in Failures =>
       /\ geoCache = NullCache /\ geoCacheNorm = NullCache
       /\ (data.loc.t = "array" \/ data.disp.t = "array") =>
             /\ results # ErrorText
             /\ pc = "afterLoad" =>
                   /\ results = InitialText
                   /\ filteredData = Source(data).arr
       /\ \A m \in Layers :
             /\ m.tier \in {"explicit", "centroid"}
             /\ ~HasExplicit(m.d) =>
                   /\ m.tier = "centroid"
                   /\ (m.lat.u - CityCoords(m.d.city).lat) \in -20..19
                   /\ (m.lng.u - CityCoords(m.d.city).lng) \in -20..19
       /\ \A i \in 1..Len(lastRun.tiers) :
             lastRun.tiers[i] \in {"explicit", "centroid", "none"}

\* The cache fetch failed and the map shows RecCached at its centroid, next to
\* a record that was reported not found
DegradedToCentroid ==
    /\ geoFetch \in Failures
    /\ results.kind = "showing"
    /\ lastRun.coordsNotFound = 1
    /\ \E m \in MarkerSet(markers) : m.d = RecCached /\ m.tier = "centroid"

----------------------------------------------------------------------------
(* C6 *)

\* C6: what applyFilters assigns to filteredData is the source's records that
\* pass every active predicate (the logical AND), and the source itself when
\* every control is at pass-through; and for every dataset loadData has
\* loaded, every region value and every trend bucket, filtering by both gives
\* the records of the source that are in the region-only result and in the
\* trend-only result.
FilterComposition ==
    /\ applied # NoApply =>
          /\ filteredData = SelectSeq(Source(data).arr, LAMBDA d : Passes(d, applied))
          /\ applied = Controls(<<>>, <<>>, <<>>, ALL) => filteredData = Source(data).arr
    /\ (pc = "afterLoad" /\ data.t = "doc" /\ Iterable(Source(data))) =>
          \A r \in {<<>>, North, South} : \A t \in TrendButtons :
             \E byRegion \in {Filtered(Source(data).arr, <<>>, r, <<>>, ALL)} :
             \E byTrend \in {Filtered(Source(data).arr, <<>>, <<>>, <<>>, t)} :
                Filtered(Source(data).arr, <<>>, r, <<>>, t) =
                   SelectSeq(Source(data).arr,
                             LAMBDA d : InSeq(d, byRegion) /\ InSeq(d, byTrend))

\* Region North and bucket down are both set: of RecExplicit (North, down) and
\* RecNowhere (North, stable) only the first is left
RegionAndTrendSet ==
    /\ applied # NoApply
    /\ applied.region = North /\ applied.trend = DOWN
    /\ Source(data).arr = <<RecExplicit, RecNowhere>>
    /\ filteredData = <<RecExplicit>>

----------------------------------------------------------------------------
(* C7 *)

\* The bucket of each label the claim lists
ListedLabels ==
    /\ BaseTrend(StrongUp) = UP
    /\ BaseTrend(UP) = UP
    /\ BaseTrend(StrongDown) = DOWN
    /\ BaseTrend(DOWN) = DOWN
    /\ BaseTrend(InsufficientData) = STABLE
    /\ BaseTrend(STABLE) = STABLE
    /\ BaseTrend(<<>>) = STABLE
    /\ BaseTrend(Undefined) = STABLE

\* C7: baseTrend maps strong_up and up to up, strong_down and down to down,
\* insufficient_data, stable, the empty and the absent label to stable; every
\* label goes to up if it contains "up", else to down if it contains "down",
\* else to stable; and calculateStats counts every record once: up + down +
\* stable is the number of records, in the statistics of filteredData and in
\* the results text.
CoarseBuckets ==
    /\ ListedLabels
    /\ \E stats \in {CalculateStats(filteredData)} :
          stats.up + stats.down + stats.stable = Len(filteredData)
    /\ results.kind = "showing" =>
          results.up + results.down + results.stable = results.total

\* The results text counts a strong_up record under up and an
\* insufficient_data record under stable
CountedInBuckets ==
    /\ results.kind = "showing"
    /\ results.total = 2 /\ results.up = 1 /\ results.stable = 1
    /\ filteredData = <<RecCached, RecNowhere>>
    /\ RecCached.trend_direction = StrongUp
    /\ RecNowhere.trend_direction = InsufficientData

----------------------------------------------------------------------------
(* C8 *)

\* C8: a record with an address, a city, an integer postal code z and no
\* explicit coordinates, for which the cache has a usable entry under
\* "<address>, <city> <z>.0" and under neither "<address>, <city>" nor
\* "<address>, <city> <z>", is placed at that entry's lat/lng, in every run
\* that visited it.
DotZeroKeyResolves ==
    /\ \A m \in Layers :
          (/\ ~HasExplicit(m.d) /\ HasIntegerZip(m.d) /\ geoCache.loaded
           /\ IsHit(Lookup(geoCache.obj, DotZeroKey(m.d)))
           /\ ~IsHit(Lookup(geoCache.obj, BaseKey(m.d)))
           /\ ~IsHit(Lookup(geoCache.obj, BaseKey(m.d) \o <<32>> \o DigitsOf(m.d.zip.u))))
          => /\ m.lat = Lookup(geoCache.obj, DotZeroKey(m.d)).lat
             /\ m.lng = Lookup(geoCache.obj, DotZeroKey(m.d)).lng
    /\ VisitedAll =>
          \A i \in 1..Len(filteredData) :
             (/\ ~HasExplicit(filteredData[i]) /\ HasIntegerZip(filteredData[i])
              /\ geoCache.loaded
              /\ IsHit(Lookup(geoCache.obj, DotZeroKey(filteredData[i]))))
             => \E m \in MarkerSet(markers) :
                   m.d = filteredData[i] /\ m.tier = "exact"

\* RecCached (postal code 88252) placed at PlaceB by a cache whose only
\* property is "1 St., Jal 88252.0"
PlacedByDotZeroKey ==
    /\ geoCache.loaded /\ Len(geoCache.obj) = 1
    /\ geoCache.obj[1].key = DotZeroKey(RecCached)
    /\ \E m \in MarkerSet(markers) :
          m.d = RecCached /\ m.lat = PlaceB.lat /\ m.lng = PlaceB.lng

----------------------------------------------------------------------------
(* C9 *)

\* C9: a layer of a record without explicit coordinates and without an exact
\* cache hit, one of whose candidate keys canonicalizes to the canonical form
\* of a cache key with finite lat/lng, is placed by the normalized index at the
\* coordinate the index holds under that canonical key, never by the centroid
\* tier.
NormalizedKeyResolves ==
    \A m \in Layers :
       (/\ ~HasExplicit(m.d) /\ geoCache.loaded /\ NoExactHit(m.d)
        /\ \E i \in 1..Len(Candidates(m.d)) : \E j \in 1..Len(geoCache.obj) :
              /\ IsHit(geoCache.obj[j].val)
              /\ Norm(geoCache.obj[j].key) = Norm(Candidates(m.d)[i]))
       => /\ m.tier = "normalized"
          /\ \E i \in 1..Len(Candidates(m.d)) :
                /\ IsHit(Lookup(geoCacheNorm.obj, Norm(Candidates(m.d)[i])))
                /\ m.lat = Lookup(geoCacheNorm.obj, Norm(Candidates(m.d)[i])).lat
                /\ m.lng = Lookup(geoCacheNorm.obj, Norm(Candidates(m.d)[i])).lng

----------------------------------------------------------------------------
(* C10 *)

\* C10: over all the renders of a run, every layer created for a given record
\* has the same coordinate: the coordinate depends on the record and the caches
\* alone, not on the record's index, on the other records or on the renders
\* before; and getStableJitter gives the same pair for the same seed and scale:
\* every centroid-tier layer is at the centroid plus the one pair tabulated for
\* the record's seed.
StableCoordinates ==
    /\ \A p \in placed : \A q \in placed : p.d = q.d => p = q
    /\ \A m \in Layers :
          m.tier = "centroid" =>
             /\ m.lat = Plus(CityCoords(m.d.city).lat,
                             JitterTable[Template(m.d.address) \o <<124>>
                                         \o Template(m.d.licensee)][1])
             /\ m.lng = Plus(CityCoords(m.d.city).lng,
                             JitterTable[Template(m.d.address) \o <<124>>
                                         \o Template(m.d.licensee)][2])

\* RecCached was rendered by the centroid tier at index 1 and is now rendered
\* at index 0, after a filter change removed the record before it
RenderedAgainElsewhere ==
    /\ Source(data).arr = <<RecExplicit, RecCached>>
    /\ applied # NoApply
    /\ filteredData = <<RecCached>>
    /\ \E m \in MarkerSet(markers) : m.d = RecCached /\ m.tier = "centroid"
    /\ \E p \in placed : p.d = RecExplicit

----------------------------------------------------------------------------
(* createMiniSparkline: the degenerate series *)

\* The elements of monthly_data that count: an object with a month whose
\* total_sales is a number that is not negative
Usable(monthlyData) ==
    {i \in 1..Len(monthlyData) :
        /\ ~monthlyData[i].isNull
        /\ monthlyData[i].month \notin {Undefined, <<>>}
        /\ monthlyData[i].total_sales.t = "num"
        /\ monthlyData[i].total_sales.u >= 0}

\* The call found its canvas and has returned
Charted == chart.pc = "done" /\ chart.element = "canvas"

\* C11: createMiniSparkline, having dropped the points without a month or
\* with a null, undefined, NaN or negative total_sales, draws exactly one dot
\* at (width/2, height/2) when fewer than 2 values remain (none included), and
\* exactly one segment from (5, height/2) to (width - 5, height/2) when 2 or
\* more remain and all are equal; nothing else is on the canvas.
SparklineDegeneracy ==
    Charted =>
        \E usable \in {Usable(chart.monthlyData)} :
            /\ Cardinality(usable) < 2 =>
                  /\ Len(chart.shown) = 1
                  /\ chart.shown[1].op = "fill"
                  /\ chart.shown[1].path = <<<<Px(width \div 2), Px(height \div 2)>>>>
            /\ (/\ Cardinality(usable) >= 2
                /\ Cardinality({chart.monthlyData[i].total_sales.u : i \in usable}) = 1) =>
                  /\ Len(chart.shown) = 1
                  /\ chart.shown[1].op = "stroke"
                  /\ chart.shown[1].path = <<<<Px(5), Px(height \div 2)>>,
                                             <<Px(width - 5), Px(height \div 2)>>>>

\* Three points all equal to 500, on a canvas that showed an earlier plot: the
\* flat line alone is left
ConstantSeriesCharted ==
    /\ Charted
    /\ chart.monthlyData = <<MonthlyPoint(February, Num(500)), MonthlyPoint(January, Num(500)),
                             MonthlyPoint(February, Num(500))>>
    /\ chart.shown = FlatLine

----------------------------------------------------------------------------
(* applyFilters: recomputed from the source *)

\* The listeners are attached and init() has returned: every step from here
\* is a filter event
Listening == pc = "idle" /\ listeners /\ Source(data).t = "array"

\* C12: whatever filteredData was before, a search, region, city or trend
\* event leaves in it the records of the full source that pass the controls
\* as they now stand, in the source's order; and no step changes the loaded
\* dataset, so that relaxing a filter brings back every record it removed.
RecomputedFromSource ==
    [][/\ data.t = "doc" => data' = data
       /\ Listening =>
             \E now \in {Controls(search', region', city', trend')} :
                filteredData' = SelectSeq(Source(data').arr, LAMBDA d : Passes(d, now))]_vars

\* A region event has been handled on the source <<RecExplicit, RecCached>>:
\* the records of region North, taken from all of the source, are shown
RegionFilteredFromSource ==
    /\ Listening
    /\ Source(data).arr = <<RecExplicit, RecCached>>
    /\ applied = Controls(<<>>, North, <<>>, ALL)
    /\ region = North
    /\ filteredData = <<RecExplicit>>

----------------------------------------------------------------------------
(* updateMap: the order of the cache tiers *)

\* The keys of d, in the order the claim gives: address+city, then with the
\* raw postal code, then with the postal code to one decimal
OrderedKeys(d) ==
    IF Trim(OrEmpty(d.address)) = <<>> \/ Trim(OrEmpty(d.city)) = <<>> THEN <<>>
    ELSE IF IsNullish(d.zip) THEN <<BaseKey(d)>>
    ELSE IF HasIntegerZip(d)
    THEN <<BaseKey(d), BaseKey(d) \o <<32>> \o DigitsOf(d.zip.u), DotZeroKey(d)>>
    ELSE <<BaseKey(d), BaseKey(d) \o <<32>> \o ToStringZip(d.zip)>>

\* A {lat, lng} pair of numbers
IsPair(val) == val.t = "obj" /\ val.lat.t = "num" /\ val.lng.t = "num"

\* The positions in keys under which obj holds a pair
PairsAt(obj, keys) == {i \in 1..Len(keys) : IsPair(Lookup(obj, keys[i]))}

Least(S) == CHOOSE i \in S : \A j \in S : i <= j

\* The layer m is at the pair val, both coordinates, and was placed by tier
PlacedAt(m, val, tier) == m.tier = tier /\ m.lat = val.lat /\ m.lng = val.lng

\* What the tiers below the explicit one give the layer m, for its record's
\* keys, the exact positions and the normalized positions that hold a pair
TierOrder(m, keys, exact, normalized) ==
    IF exact # {}
    THEN PlacedAt(m, Lookup(geoCache.obj, keys[Least(exact)]), "exact")
    ELSE IF normalized # {}
    THEN PlacedAt(m, Lookup(geoCacheNorm.obj, Norm(keys[Least(normalized)])), "normalized")
    ELSE /\ m.tier = "centroid"
         /\ \E jitter \in {JitterTable[Template(m.d.address) \o <<124>> \o Template(m.d.licensee)]} :
               /\ m.lat = Plus(CityCoords(m.d.city).lat, jitter[1])
               /\ m.lng = Plus(CityCoords(m.d.city).lng, jitter[2])

----------------------------------------------------------------------------
(* seededRandom: the 32-bit FNV-1a hash *)

\* Bit i of a
Bit(a, i) == (a \div (2 ^ i)) % 2

\* a XOR c on 16 bits, bit by bit
Xor16(a, c) ==
    LET bits == [i \in 0..15 |-> ((Bit(a, i) + Bit(c, i)) % 2) * (2 ^ i)]
    IN  bits[0] + bits[1] + bits[2] + bits[3] + bits[4] + bits[5] + bits[6] + bits[7]
        + bits[8] + bits[9] + bits[10] + bits[11] + bits[12] + bits[13] + bits[14] + bits[15]

\* (hi * 2^16 + lo) * 16777619 modulo 2^32, as limbs: 16777619 = 256 * 2^16 + 403
TimesPrime(hi, lo) ==
    [hi |-> ((hi * 403) + (lo * 256) + ((lo * 403) \div 65536)) % 65536,
     lo |-> (lo * 403) % 65536]

\* FNV-1a over the code units of str, from the unsigned 32-bit h
RECURSIVE Fnv1a(_, _)
Fnv1a(h, str) ==
    IF str = <<>> THEN h
    ELSE Fnv1a(TimesPrime(h.hi, Xor16(h.lo, Head(str))), Tail(str))

\* The FNV-1a hash of str from 2166136261 = 33052 * 2^16 + 40389
Fnv1aHash(str) == Fnv1a([hi |-> 33052, lo |-> 40389], str)

\* The number x is hash / 2^32
IsHashFraction(x, hash) ==
    x.t = "num" /\ x.u = 0 /\ x.fh = hash.hi /\ x.fl = hash.lo

\* The number j is (hash / 2^32 - 1/2) * scale, for an even scale: 2^32 * j
\* plus 2^31 * scale is hash * scale
IsCentredJitter(j, hash, scale) ==
    /\ j.t = "num"
    /\ j.fl = (hash.lo * scale) % 65536
    /\ (j.u + (scale \div 2)) * 65536 + j.fh = hash.hi * scale + ((hash.lo * scale) \div 65536)

\* The number j is in [-scale/2, +scale/2), for an even scale
InHalfScale(j, scale) ==
    /\ j.t = "num"
    /\ j.fh \in 0..65535 /\ j.fl \in 0..65535
    /\ j.u \in (-(scale \div 2))..((scale \div 2) - 1)

\* C14: seededRandom(seed) is H / 2^32 for H the 32-bit FNV-1a hash of the
\* seed's code units (from 2166136261, XOR the code unit, then times 16777619
\* modulo 2^32), so that 0 <= H < 2^32 and the result is in [0, 1); and the
\* components of getStableJitter(seed, scale) are (H / 2^32 - 1/2) * scale for
\* the hashes of seed + ":lat" and of seed + ":lng", each in
\* [-scale/2, +scale/2).
SeededRandomIsFnv1a ==
    /\ rand.pc \in {"hashed", "returned"} =>
          \E hash \in {Fnv1aHash(rand.seed)} :
             /\ hash.hi \in 0..65535 /\ hash.lo \in 0..65535
             /\ IsHashFraction(rand.random, hash)
    /\ rand.pc = "returned" =>
          /\ Len(rand.jitter) = 2
          /\ IsCentredJitter(rand.jitter[1], Fnv1aHash(rand.seed \o <<58, 108, 97, 116>>),
                             rand.scale)
          /\ IsCentredJitter(rand.jitter[2], Fnv1aHash(rand.seed \o <<58, 108, 110, 103>>),
                             rand.scale)
          /\ InHalfScale(rand.jitter[1], rand.scale)
          /\ InHalfScale(rand.jitter[2], rand.scale)

\* seededRandom("A|1") has returned 0x3AD828F3 / 2^32 (15064 * 2^16 + 10483),
\* and getStableJitter("A|1", 0.004) a pair of two different offsets
HashedAndJittered ==
    /\ rand.pc = "returned"
    /\ rand.seed = <<65, 124, 49>>
    /\ rand.scale = JitterScale
    /\ rand.random.fh = 15064 /\ rand.random.fl = 10483
    /\ rand.jitter[1] # rand.jitter[2]

====
